---------------------------- MODULE Spec2Model ----------------------------
(***************************************************************************)
(* A model of mpmath/optimization.py: the 1d root solvers (Secant,         *)
(* MNewton, Halley, Muller, Bisection, Illinois/Pegasus/Anderson, Ridder,  *)
(* ANewton), the driver findroot, multiplicity and steffensen.             *)
(*                                                                         *)
(* Numbers are exact rationals <<n, d>> (d > 0, lowest terms) kept within  *)
(* Lim; a result outside Lim, an irrational or a complex square root is    *)
(* the value NaR and ends the run as "unrepresentable".  A division by     *)
(* zero is the value ZDE: the ZeroDivisionError the arithmetic raises,     *)
(* which propagates through the expression that holds it.                  *)
(***************************************************************************)
EXTENDS Integers, Sequences, FiniteSets, TLC

VARIABLES
    f,          \* the function handed to findroot / multiplicity
    root,       \* multiplicity's root argument
    x0,         \* the starting points as given by the caller (a list)
    solver,     \* the solver argument (a name of str2solver, or unknown)
    tol,        \* the tol argument, then the tolerance in effect
    verify,     \* the verify argument
    kwargs,     \* the keyword options (df, d1f, d2f, maxsteps, method)
    pc,         \* where the running call stands
    iterations, \* the solver instance (self.*) built by solver(f, x0, **kwargs)
    gen,        \* the frame of the running __iter__ generator
    maxsteps,   \* the resolved maximum number of steps
    i,          \* findroot: steps pulled; multiplicity: the loop variable
    x,          \* findroot's current approximation (Unbound before a step)
    error,      \* the error estimate of the last step pulled
    fcalled,    \* whether f (or a derivative of it) has been evaluated
    exc,        \* the exception the call raised ("" while none)
    ret,        \* the value the call returned (Unbound while none)
    raisedAt,   \* the stage of the call that raised exc ("" while none)
    steps,      \* the steps pulled so far, in order (history)
    caller      \* the caller: its arguments, the number of the pass it is
                \* running and the outcome of its first pass

vars == <<f, root, x0, solver, tol, verify, kwargs, pc, iterations, gen, maxsteps,
          i, x, error, fcalled, exc, ret, raisedAt, steps, caller>>

(***************************** bounds ***********************************)
Lim == 1024           \* numerators and denominators stay within Lim
MaxStepsArg == 2      \* the largest explicit maxsteps option tried
MaxPull == 8          \* the maxsteps option of the ANewton runs
MaxOrder == 3         \* the largest maxsteps tried for multiplicity

(*************************** rationals **********************************)
None == <<>>
Unbound == <<>>
NaR == <<0, 0>>
ZDE == <<1, 0>>

IsNum(q) == Len(q) = 2 /\ q[2] > 0

AbsI(n) == IF n < 0 THEN -n ELSE n

RECURSIVE GCD(_, _)
GCD(a, b) == IF b = 0 THEN a ELSE GCD(b, a % b)

\* n/d in lowest terms with a positive denominator (d # 0), or NaR.
Mk(n, d) ==
    LET g == GCD(AbsI(n), AbsI(d))
        s == IF d < 0 THEN -1 ELSE 1
        nn == (s * n) \div g
        dd == (s * d) \div g
    IN  IF AbsI(nn) <= Lim /\ dd <= Lim THEN <<nn, dd>> ELSE NaR

Q(n) == <<n, 1>>
Zero == <<0, 1>>
Quarter == <<1, 4>>
Half == <<1, 2>>

\* What a binary operation gives when an operand is no number: operands are
\* evaluated left to right, so the left one's exception comes first.
Prop(a, b) == IF ~IsNum(a) THEN a ELSE b

RAdd(a, b) ==
    IF IsNum(a) /\ IsNum(b)
    THEN Mk(a[1] * b[2] + b[1] * a[2], a[2] * b[2]) ELSE Prop(a, b)

RSub(a, b) ==
    IF IsNum(a) /\ IsNum(b)
    THEN Mk(a[1] * b[2] - b[1] * a[2], a[2] * b[2]) ELSE Prop(a, b)

RMul(a, b) ==
    IF IsNum(a) /\ IsNum(b)
    THEN Mk(a[1] * b[1], a[2] * b[2]) ELSE Prop(a, b)

RDiv(a, b) ==
    IF IsNum(a) /\ IsNum(b)
    THEN (IF b[1] = 0 THEN ZDE ELSE Mk(a[1] * b[2], a[2] * b[1]))
    ELSE Prop(a, b)

RNeg(a) == IF IsNum(a) THEN <<-a[1], a[2]>> ELSE a
RAbs(a) == IF IsNum(a) THEN <<AbsI(a[1]), a[2]>> ELSE a

\* Comparisons, on numbers only.
RLt(a, b) == a[1] * b[2] < b[1] * a[2]
RLe(a, b) == a[1] * b[2] <= b[1] * a[2]
IsZero(a) == a[1] = 0
\* a * b < 0 and a**2 > b, decided exactly (the product need not stay
\* within Lim to be compared).
ProdNeg(a, b) == a[1] * b[1] < 0
SqGt(a, b) == b[1] * a[2] * a[2] < a[1] * a[1] * b[2]

\* The first element of vs that is no number, or None when all are numbers.
RECURSIVE Bad(_)
Bad(vs) ==
    IF vs = <<>> THEN None
    ELSE IF ~IsNum(Head(vs)) THEN Head(vs) ELSE Bad(Tail(vs))

\* functions.sign and functions.sqrt on the bounded rationals.
Sign(a) ==
    IF ~IsNum(a) THEN a
    ELSE IF a[1] > 0 THEN Q(1) ELSE IF a[1] < 0 THEN Q(-1) ELSE Zero

RECURSIVE ISqrt(_, _)
ISqrt(n, k) == IF k * k >= n THEN k ELSE ISqrt(n, k + 1)

Sqrt(a) ==
    IF ~IsNum(a) THEN a
    ELSE IF a[1] < 0 THEN NaR
    ELSE LET rn == ISqrt(a[1], 0)
             rd == ISqrt(a[2], 0)
         IN  IF rn * rn = a[1] /\ rd * rd = a[2] THEN <<rn, rd>> ELSE NaR

(*************************** callables **********************************)
\* A callable is [src, kind, c]: kind "poly" is the polynomial with the
\* coefficients c (c[k+1] the coefficient of x^k); kind "tab" is the function
\* x |-> x - c[x+1] on the integers 0 .. Len(c)-1 and 0 elsewhere.  src says
\* where the callable comes from: <<"f">>, <<"df">>, <<"d1f">>, <<"d2f">> (the
\* arguments) or <<"diff">> \o g.src (a closure over calculus.diff of g).
Poly(src, c) == [src |-> src, kind |-> "poly", c |-> c]
Tab(src, c) == [src |-> src, kind |-> "tab", c |-> c]
\* kind "step", c = <<lo, hi, n, d>>:  lambda x: lo if x < n/d else hi.
Step(src, c) == [src |-> src, kind |-> "step", c |-> c]

RECURSIVE Horner(_, _, _)
Horner(c, k, xx) ==
    IF k > Len(c) THEN Zero
    ELSE RAdd(Q(c[k]), RMul(xx, Horner(c, k + 1, xx)))

Call(g, xx) ==
    IF ~IsNum(xx) THEN xx
    ELSE IF g.kind = "poly" THEN Horner(g.c, 1, xx)
    ELSE IF g.kind = "step"
    THEN (IF RLt(xx, <<g.c[3], g.c[4]>>) THEN Q(g.c[1]) ELSE Q(g.c[2]))
    ELSE IF xx[2] = 1 /\ xx[1] >= 0 /\ xx[1] < Len(g.c)
         THEN RSub(xx, Q(g.c[xx[1] + 1]))
         ELSE Zero

PolyD(c) == [k \in 1 .. (IF Len(c) = 0 THEN 0 ELSE Len(c) - 1) |-> k * c[k + 1]]

\* calculus.diff: the closure  lambda x: diff(g, x)  is the exact derivative.
diff(g) == [src |-> <<"diff">> \o g.src, kind |-> "poly", c |-> PolyD(g.c)]

RECURSIVE diffn(_, _)
diffn(g, n) == IF n = 0 THEN g ELSE diffn(diff(g), n - 1)

\* mptypes.eps: 2^-16 stands for the working precision's epsilon.
eps == <<1, 65536>>

(************************ the solver protocol ***************************)
\* What a constructor gives: the instance, or the exception it raises.
Built(self) == [exc |-> "", self |-> self]
Raised(e) == [exc |-> e, self |-> None]

\* What resuming a generator gives: a step (x, error), the end of the
\* sequence, or an exception; gen is the frame it is left in.
Yield(g, xx, err) ==
    [kind |-> "yield", gen |-> g, x |-> xx, error |-> err, exc |-> ""]
Stop ==
    [kind |-> "stop", gen |-> [pos |-> "done"], x |-> None, error |-> None,
     exc |-> ""]
Abort(v) ==
    [kind |-> IF v = ZDE THEN "raise" ELSE "unrepresentable",
     gen |-> [pos |-> "done"], x |-> None, error |-> None,
     exc |-> IF v = ZDE THEN "ZeroDivisionError" ELSE ""]

NewGen == [pos |-> "start"]

(****************************** Secant **********************************)
\* Each generator is written as a chain of operators, one per group of
\* assignments of its loop body, each handing the values computed so far
\* to the next.
Secant_init(ff, xs, kw) ==
    IF Len(xs) = 1
    THEN Built([cls |-> "Secant", x0 |-> xs[1], x1 |-> RAdd(xs[1], Quarter),
                f |-> ff])
    ELSE IF Len(xs) = 2
    THEN Built([cls |-> "Secant", x0 |-> xs[1], x1 |-> xs[2], f |-> ff])
    ELSE Raised("ValueError")

\* x0, x1 = x1, x1 - f1/s;  f0 = f1;  yield x1, abs(l)
Secant_yield(xb, f1, l, nx) ==
    IF ~IsNum(nx) THEN Abort(nx)
    ELSE Yield([pos |-> "loop", x0 |-> xb, x1 |-> nx, f0 |-> f1],
               nx, RAbs(l))

\* A variant without the zero-slope test, which C7_ConstantEndsQuietly
\* tells from SecantZeroSlope.
SecantNeverFlat(s) == FALSE

\* if not s: break
SecantZeroSlope(s) == IsZero(s)

Secant_s(xb, f1, l, s) ==
    IF ~IsNum(s) THEN Abort(s)
    ELSE IF SecantZeroSlope(s) THEN Stop
    ELSE Secant_yield(xb, f1, l, RSub(xb, RDiv(f1, s)))

\* if not l: break;  s = (f1 - f0) / l
Secant_l(xb, f0, f1, l) ==
    IF Bad(<<f0, f1, l>>) # None THEN Abort(Bad(<<f0, f1, l>>))
    ELSE IF IsZero(l) THEN Stop
    ELSE Secant_s(xb, f1, l, RDiv(RSub(f1, f0), l))

\* f1 = f(x1);  l = x1 - x0
Secant_loop(self, xa, xb, f0) ==
    Secant_l(xb, f0, Call(self.f, xb), RSub(xb, xa))

Secant_iter(self, g) ==
    IF g.pos = "done" THEN Stop
    ELSE IF g.pos = "start"
    THEN Secant_loop(self, self.x0, self.x1, Call(self.f, self.x0))
    ELSE Secant_loop(self, g.x0, g.x1, g.f0)

(************************* MNewton and Halley ***************************)
HasKey(kw, k) == kw[k] # None

\* The df and d2f an instance ends up with (MNewton.__init__ and
\* Halley.__init__ hold the same lines): the exception raised, or the two.
Derivatives(ff, kw) ==
    IF ~HasKey(kw, "d2f")
    THEN [exc |-> "",
          df |-> IF ~HasKey(kw, "df") THEN diff(ff) ELSE kw.df,
          d2f |-> diff(IF ~HasKey(kw, "df") THEN diff(ff) ELSE kw.df)]
    ELSE IF ~HasKey(kw, "df")
    THEN [exc |-> "KeyError", df |-> None, d2f |-> None]
    ELSE [exc |-> "", df |-> kw.df, d2f |-> kw.df]

MNewton_built(ff, xs, d) ==
    IF d.exc # "" THEN Raised(d.exc)
    ELSE Built([cls |-> "MNewton", x0 |-> xs[1], f |-> ff, df |-> d.df,
                d2f |-> d.d2f])

MNewton_init(ff, xs, kw) ==
    IF Len(xs) # 1 THEN Raised("ValueError")
    ELSE MNewton_built(ff, xs, Derivatives(ff, kw))

\* error = abs(x - prevx);  yield x, error
Newton_yield(prevx, pre, nx) ==
    IF Bad(pre \o <<nx>>) # None THEN Abort(Bad(pre \o <<nx>>))
    ELSE Yield([pos |-> "loop", x |-> nx], nx, RAbs(RSub(nx, prevx)))

\* if fx == 0: break;  x -= fx / (dfx - fx * d2fx / dfx)
MNewton_step(prevx, fx, dfx, d2fx) ==
    IF ~IsNum(fx) THEN Abort(fx)
    ELSE IF IsZero(fx) THEN Stop
    ELSE Newton_yield(prevx, <<dfx, d2fx>>,
             RSub(prevx, RDiv(fx, RSub(dfx, RDiv(RMul(fx, d2fx), dfx)))))

MNewton_loop(self, prevx) ==
    MNewton_step(prevx, Call(self.f, prevx), Call(self.df, prevx),
                 Call(self.d2f, prevx))

MNewton_iter(self, g) ==
    IF g.pos = "done" THEN Stop
    ELSE MNewton_loop(self, IF g.pos = "start" THEN self.x0 ELSE g.x)

Halley_built(ff, xs, d) ==
    IF d.exc # "" THEN Raised(d.exc)
    ELSE Built([cls |-> "Halley", x0 |-> xs[1], f |-> ff, df |-> d.df,
                d2f |-> d.d2f])

Halley_init(ff, xs, kw) ==
    IF Len(xs) # 1 THEN Raised("ValueError")
    ELSE Halley_built(ff, xs, Derivatives(ff, kw))

\* x -= 2*fx*dfx / (2*dfx**2 - fx*d2fx)
Halley_step(prevx, fx, dfx, d2fx) ==
    Newton_yield(prevx, <<fx, dfx, d2fx>>,
        RSub(prevx,
             RDiv(RMul(RMul(Q(2), fx), dfx),
                  RSub(RMul(Q(2), RMul(dfx, dfx)), RMul(fx, d2fx)))))

Halley_loop(self, prevx) ==
    Halley_step(prevx, Call(self.f, prevx), Call(self.df, prevx),
                Call(self.d2f, prevx))

Halley_iter(self, g) ==
    IF g.pos = "done" THEN Stop
    ELSE Halley_loop(self, IF g.pos = "start" THEN self.x0 ELSE g.x)

(****************************** Muller **********************************)
Muller_init(ff, xs, kw) ==
    IF Len(xs) = 1
    THEN Built([cls |-> "Muller", x0 |-> xs[1],
                x1 |-> RAdd(xs[1], Quarter),
                x2 |-> RAdd(RAdd(xs[1], Quarter), Quarter), f |-> ff])
    ELSE IF Len(xs) = 2
    THEN Built([cls |-> "Muller", x0 |-> xs[1], x1 |-> xs[2],
                x2 |-> RAdd(xs[2], Quarter), f |-> ff])
    ELSE IF Len(xs) = 3
    THEN Built([cls |-> "Muller", x0 |-> xs[1], x1 |-> xs[2],
                x2 |-> xs[3], f |-> ff])
    ELSE Raised("ValueError")

\* fx2 = f(x2);  error = abs(x2 - x1);  yield x2, error
Muller_fx2(xb, xc, fx1, fx2, nx, nfx) ==
    IF Bad(<<nx, nfx>>) # None THEN Abort(Bad(<<nx, nfx>>))
    ELSE Yield([pos |-> "loop", x0 |-> xb, x1 |-> xc, x2 |-> nx,
                fx0 |-> fx1, fx1 |-> fx2, fx2 |-> nfx],
               nx, RAbs(RSub(nx, xc)))

Muller_yield(self, xb, xc, fx1, fx2, nx) ==
    Muller_fx2(xb, xc, fx1, fx2, nx, Call(self.f, nx))

\* if abs(w - r) > abs(w + r): r = -r;  x2 -= 2*fx2 / (w + r)
Muller_x2(self, xb, xc, fx1, fx2, w, r) ==
    IF ~IsNum(r) THEN Abort(r)
    ELSE Muller_yield(self, xb, xc, fx1, fx2,
             RSub(xc, RDiv(RMul(Q(2), fx2),
                           RAdd(w, IF RLt(RAbs(RAdd(w, r)), RAbs(RSub(w, r)))
                                   THEN RNeg(r) ELSE r))))

\* if w == 0 and fx2x1x0 == 0: break
MullerCancel(w, fx2x1x0) == IsZero(w) /\ IsZero(fx2x1x0)

\* r = sqrt(w**2 - 4*fx2*fx2x1x0)
Muller_r(self, xb, xc, fx1, fx2, pre, w, fx2x1x0) ==
    IF Bad(pre \o <<w, fx2x1x0>>) # None
    THEN Abort(Bad(pre \o <<w, fx2x1x0>>))
    ELSE IF MullerCancel(w, fx2x1x0) THEN Stop
    ELSE Muller_x2(self, xb, xc, fx1, fx2, w,
             Sqrt(RSub(RMul(w, w), RMul(RMul(Q(4), fx2), fx2x1x0))))

\* w = fx2x1 + fx2x0 - fx1x0;  fx2x1x0 = (fx1x0 - fx2x1) / (x0 - x2)
Muller_w(self, xa, xb, xc, fx0, fx1, fx2, fx2x1, fx2x0, fx1x0) ==
    Muller_r(self, xb, xc, fx1, fx2,
             <<fx0, fx1, fx2, fx2x1, fx2x0, fx1x0>>,
             RSub(RAdd(fx2x1, fx2x0), fx1x0),
             RDiv(RSub(fx1x0, fx2x1), RSub(xa, xc)))

\* The divided differences fx2x1, fx2x0, fx1x0.
Muller_loop(self, xa, xb, xc, fx0, fx1, fx2) ==
    Muller_w(self, xa, xb, xc, fx0, fx1, fx2,
             RDiv(RSub(fx1, fx2), RSub(xb, xc)),
             RDiv(RSub(fx0, fx2), RSub(xa, xc)),
             RDiv(RSub(fx0, fx1), RSub(xa, xb)))

Muller_iter(self, g) ==
    IF g.pos = "done" THEN Stop
    ELSE IF g.pos = "start"
    THEN Muller_loop(self, self.x0, self.x1, self.x2, Call(self.f, self.x0),
                     Call(self.f, self.x1), Call(self.f, self.x2))
    ELSE Muller_loop(self, g.x0, g.x1, g.x2, g.fx0, g.fx1, g.fx2)

(***************************** Bisection ********************************)
\* A variant that only rejects lists that are too short, which
\* C5_ConfigurationErrors tells from Bisection_init.
Bisection_init_atleast(ff, xs, kw) ==
    IF Len(xs) < 2 THEN Raised("ValueError")
    ELSE Built([cls |-> "Bisection", f |-> ff, a |-> xs[1], b |-> xs[2]])

Bisection_init(ff, xs, kw) ==
    IF Len(xs) # 2 THEN Raised("ValueError")
    ELSE Built([cls |-> "Bisection", f |-> ff, a |-> xs[1], b |-> xs[2]])

\* yield (a + b)/2, abs(l)
Bisection_mid(a, b, l, mid) ==
    IF Bad(<<l, mid>>) # None THEN Abort(Bad(<<l, mid>>))
    ELSE Yield([pos |-> "loop", a |-> a, b |-> b, l |-> l], mid, RAbs(l))

Bisection_yield(a, b, l) == Bisection_mid(a, b, l, RDiv(RAdd(a, b), Q(2)))

\* if f(m) * f(b) < 0: a = m, else: b = m
BisectionRootInRight(fm, fb) == ProdNeg(fm, fb)

\* l /= 2
Bisection_sign(a, b, l, m, fm, fb) ==
    IF Bad(<<l, m, fm, fb>>) # None THEN Abort(Bad(<<l, m, fm, fb>>))
    ELSE IF BisectionRootInRight(fm, fb)
    THEN Bisection_yield(m, b, RDiv(l, Q(2)))
    ELSE Bisection_yield(a, m, RDiv(l, Q(2)))

Bisection_m(self, a, b, l, m) ==
    Bisection_sign(a, b, l, m, Call(self.f, m), Call(self.f, b))

\* m = 0.5 * (a + b)
Bisection_loop(self, a, b, l) ==
    Bisection_m(self, a, b, l, RMul(Half, RAdd(a, b)))

Bisection_iter(self, g) ==
    IF g.pos = "done" THEN Stop
    ELSE IF g.pos = "start"
    THEN Bisection_loop(self, self.a, self.b, RSub(self.b, self.a))
    ELSE Bisection_loop(self, g.a, g.b, g.l)

(******************* Illinois, Pegasus and Anderson *********************)
Methods == {"illinois", "pegasus", "anderson"}

\* A variant without the guard m > 0, which C13_OppositeSigns tells from
\* AndersonM.
AndersonRaw(m) == m

\* m = 1 - fz/fb;  if m > 0: return m, else: return 0.5
AndersonM(m) == IF ~IsNum(m) THEN m ELSE IF RLt(Zero, m) THEN m ELSE Half

\* _getm(method)(fz, fb)
getm(method, fz, fb) ==
    IF method = "illinois" THEN Half
    ELSE IF method = "pegasus" THEN RDiv(fb, RAdd(fb, fz))
    ELSE AndersonM(RSub(Q(1), RDiv(fz, fb)))

Illinois_method(ff, xs, kw, method) ==
    IF method \notin Methods THEN Raised("ValueError")
    ELSE Built([cls |-> "Illinois", a |-> xs[1], b |-> xs[2], f |-> ff,
                tol |-> kw.tol, method |-> method])

Illinois_init(ff, xs, kw) ==
    IF Len(xs) # 2 THEN Raised("ValueError")
    ELSE Illinois_method(ff, xs, kw,
                         IF kw.method = "" THEN "illinois" ELSE kw.method)

Pegasus(ff, xs, kw) == Illinois_init(ff, xs, [kw EXCEPT !.method = "pegasus"])

Anderson(ff, xs, kw) ==
    Illinois_init(ff, xs, [kw EXCEPT !.method = "anderson"])

\* yield (a + b)/2, abs(l)
Illinois_mid(a, b, fa, fb, m, l, mid) ==
    IF Bad(<<fa, mid>>) # None THEN Abort(Bad(<<fa, mid>>))
    ELSE Yield([pos |-> "loop", a |-> a, b |-> b, fa |-> fa, fb |-> fb,
                m |-> m], mid, RAbs(l))

Illinois_yield(a, b, fa, fb, m, l) ==
    Illinois_mid(a, b, fa, fb, m, l, RDiv(RAdd(a, b), Q(2)))

\* b = z;  fb = fz;  fa = m*fa
Illinois_scale(a, z, fa, fz, l, m) ==
    IF ~IsNum(m) THEN Abort(m)
    ELSE Illinois_yield(a, z, RMul(m, fa), fz, m, l)

\* if abs(fz) < self.tol: yield z, l; break
IllinoisCancel(fz, t) == RLt(RAbs(fz), t)

\* if fz * fb < 0: a = b; fa = fb; b = z; fb = fz, else: m = self.getm(fz, fb)
Illinois_fz(self, a, b, fa, fb, m, l, z, fz) ==
    IF Bad(<<z, fz>>) # None THEN Abort(Bad(<<z, fz>>))
    ELSE IF IllinoisCancel(fz, self.tol)
    THEN Yield([pos |-> "last", a |-> a, b |-> b, fa |-> fa, fb |-> fb,
                m |-> m], z, l)
    ELSE IF ~IsNum(fb) THEN Abort(fb)
    ELSE IF ProdNeg(fz, fb)
    THEN Illinois_yield(b, z, fb, fz, m, l)
    ELSE Illinois_scale(a, z, fa, fz, l, getm(self.method, fz, fb))

Illinois_z(self, a, b, fa, fb, m, l, z) ==
    Illinois_fz(self, a, b, fa, fb, m, l, z, Call(self.f, z))

\* A variant that also ends the sequence on a zero slope, which
\* C4_ZeroDivision tells from Illinois_l.
Illinois_l_flat(self, a, b, fa, fb, m, l) ==
    IF Bad(<<fa, fb, l>>) # None THEN Abort(Bad(<<fa, fb, l>>))
    ELSE IF IsZero(l) \/ IsZero(RSub(fb, fa)) THEN Stop
    ELSE Illinois_z(self, a, b, fa, fb, m, l,
                    RSub(a, RDiv(fa, RDiv(RSub(fb, fa), l))))

\* if l == 0: break;  s = (fb - fa) / l;  z = a - fa/s
Illinois_l(self, a, b, fa, fb, m, l) ==
    IF Bad(<<fa, fb, l>>) # None THEN Abort(Bad(<<fa, fb, l>>))
    ELSE IF IsZero(l) THEN Stop
    ELSE Illinois_z(self, a, b, fa, fb, m, l,
                    RSub(a, RDiv(fa, RDiv(RSub(fb, fa), l))))

\* l = b - a
Illinois_loop(self, a, b, fa, fb, m) ==
    Illinois_l(self, a, b, fa, fb, m, RSub(b, a))

Illinois_iter(self, g) ==
    IF g.pos \in {"last", "done"} THEN Stop
    ELSE IF g.pos = "start"
    THEN Illinois_loop(self, self.a, self.b, Call(self.f, self.a),
                       Call(self.f, self.b), None)
    ELSE Illinois_loop(self, g.a, g.b, g.fa, g.fb, g.m)

(****************************** Ridder **********************************)
Ridder_init(ff, xs, kw) ==
    IF Len(xs) # 2 THEN Raised("ValueError")
    ELSE Built([cls |-> "Ridder", f |-> ff, x1 |-> xs[1], x2 |-> xs[2],
                tol |-> kw.tol])

\* error = abs(x1 - x2);  yield (x1 + x2)/2, error
Ridder_mid(x1, x2, fx1, fx2, mid) ==
    IF ~IsNum(mid) THEN Abort(mid)
    ELSE Yield([pos |-> "loop", x1 |-> x1, x2 |-> x2, fx1 |-> fx1,
                fx2 |-> fx2], mid, RAbs(RSub(x1, x2)))

Ridder_yield(x1, x2, fx1, fx2) ==
    Ridder_mid(x1, x2, fx1, fx2, RDiv(RAdd(x1, x2), Q(2)))

\* if abs(fx4) < self.tol: yield x4, abs(x1 - x2); break
\* if fx4 * fx2 < 0: x1 = x4; fx1 = fx4, else: x2 = x4; fx2 = fx4
Ridder_fx4(self, x1, x2, fx1, fx2, pre, x4, fx4) ==
    IF Bad(pre \o <<x4, fx4>>) # None THEN Abort(Bad(pre \o <<x4, fx4>>))
    ELSE IF RLt(RAbs(fx4), self.tol)
    THEN Yield([pos |-> "last", x1 |-> x1, x2 |-> x2, fx1 |-> fx1,
                fx2 |-> fx2], x4, RAbs(RSub(x1, x2)))
    ELSE IF ProdNeg(fx4, fx2)
    THEN Ridder_yield(x4, x2, fx4, fx2)
    ELSE Ridder_yield(x1, x4, fx1, fx4)

Ridder_x4(self, x1, x2, fx1, fx2, pre, x4) ==
    Ridder_fx4(self, x1, x2, fx1, fx2, pre, x4, Call(self.f, x4))

\* x4 = x3 + (x3 - x1) * sign(fx1 - fx2) * fx3 / sqrt(fx3**2 - fx1*fx2)
Ridder_fx3(self, x1, x2, fx1, fx2, x3, fx3) ==
    Ridder_x4(self, x1, x2, fx1, fx2, <<fx1, fx2, x3, fx3>>,
        RAdd(x3,
             RDiv(RMul(RMul(RSub(x3, x1), Sign(RSub(fx1, fx2))), fx3),
                  Sqrt(RSub(RMul(fx3, fx3), RMul(fx1, fx2))))))

Ridder_x3(self, x1, x2, fx1, fx2, x3) ==
    Ridder_fx3(self, x1, x2, fx1, fx2, x3, Call(self.f, x3))

\* x3 = 0.5*(x1 + x2)
Ridder_loop(self, x1, x2, fx1, fx2) ==
    Ridder_x3(self, x1, x2, fx1, fx2, RMul(Half, RAdd(x1, x2)))

Ridder_iter(self, g) ==
    IF g.pos \in {"last", "done"} THEN Stop
    ELSE IF g.pos = "start"
    THEN Ridder_loop(self, self.x1, self.x2, Call(self.f, self.x1),
                     Call(self.f, self.x2))
    ELSE Ridder_loop(self, g.x1, g.x2, g.fx1, g.fx2)

(************************ steffensen and ANewton ************************)
\* The iteration map of an ANewton generator is self.phi wrapped k times by
\* steffensen; phi(self, k, xx) is its value at xx.
RECURSIVE phi(_, _, _)

\* return (x*ffx - fx**2) / (ffx - 2*fx + x)
steffensen_F(xx, fx, ffx) ==
    RDiv(RSub(RMul(xx, ffx), RMul(fx, fx)),
         RAdd(RSub(ffx, RMul(Q(2), fx)), xx))

steffensen_ffx(self, k, xx, fx) == steffensen_F(xx, fx, phi(self, k, fx))

\* steffensen(f)(x), f being self.phi wrapped k times.
steffensen(self, k, xx) == steffensen_ffx(self, k, xx, phi(self, k, xx))

phi(self, k, xx) ==
    IF k = 0
    THEN RSub(xx, RDiv(Call(self.f, xx), Call(self.df, xx)))
    ELSE steffensen(self, k - 1, xx)

ANewton_init(ff, xs, kw) ==
    IF Len(xs) # 1 THEN Raised("ValueError")
    ELSE Built([cls |-> "ANewton", x0 |-> xs[1], f |-> ff,
                df |-> IF ~HasKey(kw, "df") THEN diff(ff) ELSE kw.df])

\* if counter >= 3: phi = steffensen(phi); counter = 0
\* yield x0, error
ANewton_yield(k, nx, err, slow, c) ==
    Yield([pos |-> "loop", x0 |-> nx, error |-> err,
           counter |-> IF c >= 3 THEN 0 ELSE c,
           phi |-> IF c >= 3 THEN k + 1 ELSE k,
           slow |-> slow],
          nx, err)

\* error and abs(error - preverror) / error < 1
ConvergingSlowly(err, preverror) ==
    ~IsZero(err) /\ RLt(RDiv(RAbs(RSub(err, preverror)), err), Q(1))

\* A variant that resets the counter on a step that is not slow, which
\* C8_AccumulatedSlow tells from Count.
CountConsecutive(counter, slow) == IF slow THEN counter + 1 ELSE 0

\* The counter after the test: counter += 1 when converging slowly.
Count(counter, slow) == IF slow THEN counter + 1 ELSE counter

ANewton_slow(counter, k, nx, err, slow) ==
    ANewton_yield(k, nx, err, slow, Count(counter, slow))

\* preverror = error;  error = abs(prevx - x0)
ANewton_error(preverror, counter, k, nx, err) ==
    IF ~IsNum(err) THEN Abort(err)
    ELSE IF ~IsZero(err) /\ ~IsNum(RDiv(RAbs(RSub(err, preverror)), err))
    THEN Abort(RDiv(RAbs(RSub(err, preverror)), err))
    ELSE ANewton_slow(counter, k, nx, err, ConvergingSlowly(err, preverror))

\* try: x0 = phi(x0), except ZeroDivisionError: break
ANewton_x0(prevx, preverror, counter, k, nx) ==
    IF nx = ZDE THEN Stop
    ELSE IF ~IsNum(nx) THEN Abort(nx)
    ELSE ANewton_error(preverror, counter, k, nx, RAbs(RSub(prevx, nx)))

ANewton_loop(self, prevx, preverror, counter, k) ==
    ANewton_x0(prevx, preverror, counter, k, phi(self, k, prevx))

ANewton_iter(self, g) ==
    IF g.pos = "done" THEN Stop
    ELSE IF g.pos = "start" THEN ANewton_loop(self, self.x0, Zero, 0, 0)
    ELSE ANewton_loop(self, g.x0, g.error, g.counter, g.phi)

(************************** str2solver **********************************)
Names == {"secant", "mnewton", "halley", "muller", "bisect", "illinois",
          "pegasus", "anderson", "ridder", "anewton"}

\* solver(f, x0, **kwargs) for solver = str2solver[name]
Construct(name, ff, xs, kw) ==
    CASE name = "secant" -> Secant_init(ff, xs, kw)
      [] name = "mnewton" -> MNewton_init(ff, xs, kw)
      [] name = "halley" -> Halley_init(ff, xs, kw)
      [] name = "muller" -> Muller_init(ff, xs, kw)
      [] name = "bisect" -> Bisection_init(ff, xs, kw)
      [] name = "illinois" -> Illinois_init(ff, xs, kw)
      [] name = "pegasus" -> Pegasus(ff, xs, kw)
      [] name = "anderson" -> Anderson(ff, xs, kw)
      [] name = "ridder" -> Ridder_init(ff, xs, kw)
      [] name = "anewton" -> ANewton_init(ff, xs, kw)

\* The class attribute maxsteps of an instance.
ClassMaxsteps(self) ==
    CASE self.cls \in {"Secant", "Muller", "Illinois", "Ridder"} -> 30
      [] self.cls \in {"MNewton", "Halley", "ANewton"} -> 20
      [] self.cls = "Bisection" -> 100

\* Resuming iter(self): the next step of the instance's generator.
Resume(self, g) ==
    CASE self.cls = "Secant" -> Secant_iter(self, g)
      [] self.cls = "MNewton" -> MNewton_iter(self, g)
      [] self.cls = "Halley" -> Halley_iter(self, g)
      [] self.cls = "Muller" -> Muller_iter(self, g)
      [] self.cls = "Bisection" -> Bisection_iter(self, g)
      [] self.cls = "Illinois" -> Illinois_iter(self, g)
      [] self.cls = "Ridder" -> Ridder_iter(self, g)
      [] self.cls = "ANewton" -> ANewton_iter(self, g)

(****************************** findroot ********************************)
\* Lines 671-690: the arguments are normalised and the solver looked up.
DefaultTol == RMul(eps, Q(1024))

findroot_args ==
    /\ pc = "call"
    /\ tol' = IF tol = None THEN DefaultTol ELSE tol
    /\ kwargs' = [kwargs EXCEPT
                    !.df = IF HasKey(kwargs, "d1f") THEN kwargs.d1f ELSE @,
                    !.tol = IF tol = None THEN DefaultTol ELSE tol]
    /\ IF solver \in Names
       THEN /\ pc' = "solver"
            /\ UNCHANGED <<exc, raisedAt>>
       ELSE /\ pc' = "raised"
            /\ exc' = "ValueError"
            /\ raisedAt' = "lookup"
    /\ UNCHANGED <<f, root, x0, solver, verify, iterations, gen, maxsteps, i, x,
                   error, fcalled, ret, steps, caller>>

\* Lines 692-697: the solver is constructed and maxsteps resolved.
ResolveMaxsteps(kw, self) ==
    IF kw.maxsteps # 0 THEN kw.maxsteps ELSE ClassMaxsteps(self)

findroot_built(r) ==
           IF r.exc # ""
           THEN /\ pc' = "raised"
                /\ exc' = r.exc
                /\ raisedAt' = "construct"
                /\ UNCHANGED <<iterations, gen, maxsteps, i>>
           ELSE /\ pc' = "iterate"
                /\ iterations' = r.self
                /\ gen' = NewGen
                /\ maxsteps' = ResolveMaxsteps(kwargs, r.self)
                /\ i' = 0
                /\ UNCHANGED <<exc, raisedAt>>

findroot_solver ==
    /\ pc = "solver"
    /\ findroot_built(Construct(solver, f, x0, kwargs))
    /\ UNCHANGED <<f, root, x0, solver, tol, verify, kwargs, x, error, fcalled,
                   ret, steps, caller>>

\* A variant that stops one step late, which C1_StopsAtFirstBreak tells
\* from Break.
BreakLate(err, n, t, ms) == RLt(err, t) \/ n > ms

\* Lines 698-704: one pass of  for x, error in iterations.
\* error < tol or i >= maxsteps
Break(err, n, t, ms) == RLt(err, t) \/ n >= ms

findroot_pulled(r) ==
           /\ gen' = r.gen
           /\ fcalled' = TRUE
           /\ CASE r.kind = "yield" ->
                     /\ x' = r.x
                     /\ error' = r.error
                     /\ i' = i + 1
                     /\ steps' = Append(steps, <<r.x, r.error>>)
                     /\ pc' = IF Break(r.error, i + 1, tol, maxsteps)
                              THEN "verify" ELSE "iterate"
                     /\ UNCHANGED <<exc, raisedAt>>
                [] r.kind = "stop" ->
                     /\ pc' = "verify"
                     /\ UNCHANGED <<x, error, i, steps, exc, raisedAt>>
                [] r.kind = "raise" ->
                     /\ pc' = "raised"
                     /\ exc' = r.exc
                     /\ raisedAt' = "iterate"
                     /\ UNCHANGED <<x, error, i, steps>>
                [] r.kind = "unrepresentable" ->
                     /\ pc' = "unrepresentable"
                     /\ UNCHANGED <<x, error, i, steps, exc, raisedAt>>

\* A variant in which a step stores its approximation in the instance's
\* starting point, which C11_SameOutcome tells from findroot_next.
findroot_next_stored ==
    /\ pc = "iterate"
    /\ findroot_pulled(Resume(iterations, gen))
    /\ iterations' =
           IF Resume(iterations, gen).kind = "yield"
                  /\ "x0" \in DOMAIN iterations
           THEN [iterations EXCEPT !.x0 = Resume(iterations, gen).x]
           ELSE iterations
    /\ UNCHANGED <<f, root, x0, solver, tol, verify, kwargs, maxsteps, ret,
                   caller>>

\* No __iter__ assigns an attribute of self: the instance is left as built.
findroot_next ==
    /\ pc = "iterate"
    /\ findroot_pulled(Resume(iterations, gen))
    /\ UNCHANGED <<f, root, x0, solver, tol, verify, kwargs, iterations, maxsteps,
                   ret, caller>>

\* A variant that compares the residual itself, which C2_Verification
\* tells from Rejected.
RejectedUnsquared(fx, t) == RLt(t, RAbs(fx))

\* Lines 705-710: the residual check and the return.
\* abs(f(x))**2 > tol
Rejected(fx, t) == SqGt(RAbs(fx), t)

findroot_verify ==
    /\ pc = "verify"
    /\ LET fx == Call(f, x)
       IN  IF x = Unbound
           THEN /\ pc' = "raised"
                /\ exc' = "UnboundLocalError"
                /\ raisedAt' = "verify"
                /\ UNCHANGED <<ret, fcalled>>
           ELSE IF ~verify
           THEN /\ pc' = "returned"
                /\ ret' = x
                /\ UNCHANGED <<exc, raisedAt, fcalled>>
           ELSE IF ~IsNum(fx)
           THEN /\ pc' = "unrepresentable"
                /\ fcalled' = TRUE
                /\ UNCHANGED <<exc, raisedAt, ret>>
           ELSE IF Rejected(fx, tol)
           THEN /\ pc' = "raised"
                /\ exc' = "ValueError"
                /\ raisedAt' = "verify"
                /\ fcalled' = TRUE
                /\ UNCHANGED ret
           ELSE /\ pc' = "returned"
                /\ ret' = x
                /\ fcalled' = TRUE
                /\ UNCHANGED <<exc, raisedAt>>
    /\ UNCHANGED <<f, root, x0, solver, tol, verify, kwargs, iterations, gen,
                   maxsteps, i, x, error, steps, caller>>

Next == findroot_args \/ findroot_solver \/ findroot_next \/ findroot_verify

(*************************** the calls tried ****************************)
NoKwargs == [df |-> None, d1f |-> None, d2f |-> None, maxsteps |-> 0,
             method |-> "", tol |-> None]

Funcs == {Poly(<<"f">>, c) : c \in {<<0, 1>>, <<0, 0, 1>>, <<0, 0, 0, 1>>,
                                    <<1>>, <<-1, 2>>}}

StartLists ==
    {<<>>, <<Q(-1)>>, <<Q(1)>>, <<Q(-1), Q(1)>>, <<Q(1), Q(-1)>>,
     <<Q(-1), Half>>, <<Quarter, Zero>>, <<Q(1), Q(1)>>,
     <<Q(-1), Zero, Q(1)>>, <<Q(1), Q(-1), Q(1)>>,
     <<Q(-1), Zero, Q(1), Q(2)>>}

Tols == {None, Zero, Quarter}

\* The derivative options df, d1f, d2f tried with f: each absent or the
\* exact derivative of that order.
DerivOptions(ff) ==
    {[NoKwargs EXCEPT !.df = a, !.d1f = b, !.d2f = c] :
        a \in {None, Poly(<<"df">>, PolyD(ff.c))},
        b \in {None},
        c \in {None, Poly(<<"d2f">>, PolyD(PolyD(ff.c)))}}
    \cup {[NoKwargs EXCEPT !.d1f = Poly(<<"d1f">>, PolyD(ff.c)), !.d2f = c] :
            c \in {None, Poly(<<"d2f">>, PolyD(PolyD(ff.c)))}}

KwargsFor(name, ff) ==
    {[k EXCEPT !.maxsteps = n, !.method = m] :
        k \in IF name \in {"mnewton", "halley", "anewton"}
              THEN DerivOptions(ff) ELSE {NoKwargs},
        n \in 0 .. MaxStepsArg,
        m \in IF name = "illinois" THEN {"", "anderson", "brent"} ELSE {""}}

\* The caller before its first call: the tol and the options it passes.
FirstPass(t, kw) == [pass |-> 1, tol |-> t, kwargs |-> kw, first |-> None]

Fresh ==
    /\ pc = "call"
    /\ iterations = None
    /\ gen = None
    /\ maxsteps = 0
    /\ i = -1
    /\ x = Unbound
    /\ error = Unbound
    /\ fcalled = FALSE
    /\ exc = ""
    /\ ret = Unbound
    /\ raisedAt = ""
    /\ steps = <<>>
    /\ caller = FirstPass(tol, kwargs)

Init ==
    /\ root = Unbound
    /\ solver \in Names \cup {"brent"}
    /\ f \in Funcs
    /\ x0 \in StartLists
    /\ tol \in Tols
    /\ verify \in BOOLEAN
    /\ kwargs \in KwargsFor(solver, f)
    /\ Fresh

Spec == Init /\ [][Next]_vars

(************************** the second pass *****************************)
\* What a pass leaves to the caller: how it ended, what it returned or
\* raised, the steps it pulled and the solver instance.
Outcome ==
    [pc |-> pc, exc |-> exc, raisedAt |-> raisedAt, ret |-> ret,
     steps |-> steps, self |-> iterations]

\* The caller calls findroot again with the arguments of its first call:
\* the second call starts from its own fresh locals and options.
findroot_again ==
    /\ pc \in {"returned", "raised"}
    /\ caller.pass = 1
    /\ caller' = [caller EXCEPT !.pass = 2, !.first = Outcome]
    /\ tol' = caller.tol
    /\ kwargs' = caller.kwargs
    /\ pc' = "call"
    /\ iterations' = None
    /\ gen' = None
    /\ maxsteps' = 0
    /\ i' = -1
    /\ x' = Unbound
    /\ error' = Unbound
    /\ fcalled' = FALSE
    /\ exc' = ""
    /\ ret' = Unbound
    /\ raisedAt' = ""
    /\ steps' = <<>>
    /\ UNCHANGED <<f, root, x0, solver, verify>>

\* The solver instance of the first call is iterated a second time
\* (i = 0;  for x, error in iterations: ...), from a new generator frame.
iterate_again ==
    /\ pc \in {"returned", "raised"}
    /\ caller.pass = 1
    /\ iterations # None
    /\ caller' = [caller EXCEPT !.pass = 3, !.first = Outcome]
    /\ pc' = "iterate"
    /\ gen' = NewGen
    /\ i' = 0
    /\ x' = Unbound
    /\ error' = Unbound
    /\ exc' = ""
    /\ ret' = Unbound
    /\ raisedAt' = ""
    /\ steps' = <<>>
    /\ UNCHANGED <<f, root, x0, solver, tol, verify, kwargs, iterations,
                   maxsteps, fcalled>>

NextTwice == Next \/ findroot_again \/ iterate_again

SpecTwice == Init /\ [][NextTwice]_vars

(************************** the ANewton runs ****************************)
\* findroot(f, s, solver='anewton', df=lambda x: 1, tol=0, maxsteps=MaxPull)
\* for f(x) = x - t[x] on TabDom (0 elsewhere): phi is then x |-> t[x] on
\* TabDom, any map of TabDom to itself, and findroot pulls MaxPull steps
\* unless the sequence ends.
TabDom == 0 .. 3

InitANewton ==
    /\ root = Unbound
    /\ solver = "anewton"
    /\ f \in {Tab(<<"f">>, t) : t \in [1 .. Cardinality(TabDom) -> TabDom]}
    /\ x0 \in {<<Q(s)>> : s \in TabDom}
    /\ tol = Zero
    /\ verify \in BOOLEAN
    /\ kwargs = [NoKwargs EXCEPT !.df = Poly(<<"df">>, <<1>>),
                                 !.maxsteps = MaxPull]
    /\ Fresh

SpecANewton == InitANewton /\ [][Next]_vars

(************************** the Illinois runs ***************************)
\* findroot(f, (a, b), solver=name, maxsteps=MaxPull) for the three
\* regula-falsi variants, on step functions (which never trigger the early
\* exit when tol <= 1) and on polynomials (which do).
StepLevels == {-2, -1, 1, 2}

StepFuncs ==
    {Step(<<"f">>, <<lo, hi, n, 3>>) :
        lo \in StepLevels, hi \in StepLevels, n \in {0, 1, 2}}

Brackets ==
    {<<Q(-1), Q(1)>>, <<Q(1), Q(-1)>>, <<Zero, Q(1)>>, <<Q(-1), Half>>,
     <<Q(1), Q(1)>>}

InitIllinois ==
    /\ root = Unbound
    /\ solver \in {"illinois", "pegasus", "anderson"}
    /\ f \in StepFuncs \cup Funcs
    /\ x0 \in Brackets
    /\ tol \in {None, Quarter}
    /\ verify \in BOOLEAN
    /\ kwargs = [NoKwargs EXCEPT !.maxsteps = MaxPull]
    /\ Fresh

SpecIllinois == InitIllinois /\ [][Next]_vars

(**************************** multiplicity ******************************)
\* kwargs of multiplicity is a function of the order k: kwargs[k] is the
\* option 'd<k>f', or None when it is not given.

\* kwargs['d0f'] = f
multiplicity_enter ==
    /\ pc = "multiplicity"
    /\ kwargs' = [kwargs EXCEPT ![0] = f]
    /\ pc' = "for"
    /\ UNCHANGED <<f, root, x0, solver, tol, verify, iterations, gen,
                   maxsteps, i, x, error, fcalled, exc, ret, raisedAt, steps,
                   caller>>

\* A variant that ignores the supplied derivatives, which
\* C9_SmallestOrder tells from Derivative.
DerivativeNumerical(kw, ff, k) == diffn(ff, k)

\* df = kwargs[dfstr] if dfstr in kwargs, else lambda x: diff(f, x, i)
Derivative(kw, ff, k) == IF kw[k] # None THEN kw[k] ELSE diffn(ff, k)

\* if not abs(df(root)) < tol: break
MultiplicityBreak(v, t) == ~RLt(RAbs(v), t)

multiplicity_tested(v) ==
    IF ~IsNum(v) THEN pc' = "unrepresentable"
    ELSE IF MultiplicityBreak(v, tol) THEN pc' = "return"
    ELSE pc' = "for"

\* One pass of  for i in xrange(maxsteps), or its end.
multiplicity_for ==
    /\ pc = "for"
    /\ IF i + 1 < maxsteps
       THEN /\ i' = i + 1
            /\ fcalled' = TRUE
            /\ multiplicity_tested(Call(Derivative(kwargs, f, i + 1), root))
       ELSE /\ pc' = "return"
            /\ UNCHANGED <<i, fcalled>>
    /\ UNCHANGED <<f, root, x0, solver, tol, verify, kwargs, iterations, gen,
                   maxsteps, x, error, exc, ret, raisedAt, steps, caller>>

\* return i
multiplicity_return ==
    /\ pc = "return"
    /\ IF i = -1
       THEN /\ pc' = "raised"
            /\ exc' = "UnboundLocalError"
            /\ raisedAt' = "return"
            /\ UNCHANGED ret
       ELSE /\ pc' = "returned"
            /\ ret' = i
            /\ UNCHANGED <<exc, raisedAt>>
    /\ UNCHANGED <<f, root, x0, solver, tol, verify, kwargs, iterations, gen,
                   maxsteps, i, x, error, fcalled, steps, caller>>

NextMultiplicity ==
    multiplicity_enter \/ multiplicity_for \/ multiplicity_return

\* The calls tried: f a polynomial, root 0 or 1, each option d<k>f absent
\* or a constant function.
MFuncs == {Poly(<<"f">>, c) : c \in {<<0, 1>>, <<0, 0, 1>>, <<0, 0, 0, 1>>,
                                     <<1, -2, 1>>, <<0, 0, 0, 0, 1>>}}

InitMultiplicity ==
    /\ f \in MFuncs
    /\ root \in {Zero, Q(1)}
    /\ tol \in {eps, Q(3)}
    /\ maxsteps \in 1 .. MaxOrder
    /\ kwargs \in [0 .. MaxOrder - 1 ->
                     {None, Poly(<<"d">>, <<0>>), Poly(<<"d">>, <<1>>)}]
    /\ x0 = <<>>
    /\ solver = ""
    /\ verify = FALSE
    /\ pc = "multiplicity"
    /\ caller = FirstPass(tol, kwargs)
    /\ iterations = None
    /\ gen = None
    /\ i = -1
    /\ x = Unbound
    /\ error = Unbound
    /\ fcalled = FALSE
    /\ exc = ""
    /\ ret = -1
    /\ raisedAt = ""
    /\ steps = <<>>

SpecMultiplicity == InitMultiplicity /\ [][NextMultiplicity]_vars

(****************************** claims **********************************)
Pulling == pc \in {"iterate", "verify", "returned", "raised",
                   "unrepresentable"} /\ i >= 0

\* The default step budget of each solver name.
DefaultBudget(name) ==
    CASE name \in {"secant", "muller", "illinois", "pegasus", "anderson",
                   "ridder"} -> 30
      [] name \in {"mnewton", "halley", "anewton"} -> 20
      [] name = "bisect" -> 100

\* C1: findroot pulls the steps one at a time and stops at the first step
\* with error < tol or with the number of steps pulled equal to the resolved
\* maximum (the maxsteps option if given, else the solver's default): it
\* never pulls more than maxsteps steps, no step before the last one pulled
\* had error < tol, and it leaves the loop only on such a step or at the
\* end of the sequence.
C1_StopsAtFirstBreak ==
    Pulling =>
        /\ maxsteps = IF kwargs.maxsteps # 0 THEN kwargs.maxsteps
                      ELSE DefaultBudget(solver)
        /\ i = Len(steps)
        /\ i <= maxsteps
        /\ \A k \in 1 .. Len(steps) - 1 :
               ~RLt(steps[k][2], tol) /\ k < maxsteps
        /\ (pc = "iterate" /\ i > 0) => (~RLt(error, tol) /\ i < maxsteps)
        /\ (pc \in {"verify", "returned"}) =>
               \/ i > 0 /\ (RLt(error, tol) \/ i = maxsteps)
               \/ gen.pos = "done"

C1_Witness ==
    pc = "verify" /\ i >= 2 /\ i < maxsteps /\ RLt(error, tol)

C3_ReturnedWithinTol ==
    (pc = "returned" /\ verify /\ RLt(Zero, tol))
        => RLt(RAbs(Call(f, ret)), tol)

\* C4 (as claimed): for f(x) = x^2, the bracket (-1, 1) and solver
\* 'anderson', findroot ends with the validation ValueError of the residual
\* check.
AndersonSquare ==
    /\ solver = "anderson"
    /\ f = Poly(<<"f">>, <<0, 0, 1>>)
    /\ x0 = <<Q(-1), Q(1)>>

Ended == pc \in {"verify", "returned", "raised", "unrepresentable"}

C4_ValidationError ==
    (AndersonSquare /\ Ended) =>
        (pc = "raised" /\ exc = "ValueError" /\ raisedAt = "verify")

\* C4 (amended): for f(x) = x^2, the bracket (-1, 1) and solver 'anderson',
\* findroot ends with the ZeroDivisionError raised by the solver's first
\* step (z = a - fa/s with s = 0), before any step is pulled: it returns
\* nothing and raises no validation error.
C4_ZeroDivision ==
    (AndersonSquare /\ Ended) =>
        /\ pc = "raised" /\ exc = "ZeroDivisionError"
        /\ raisedAt = "iterate" /\ i = 0 /\ x = Unbound

C4_Witness ==
    AndersonSquare /\ pc = "raised" /\ exc = "ZeroDivisionError"

\* C5: a starting-data list of a length the solver does not accept makes
\* the construction raise ValueError, and an unknown solver name makes
\* findroot raise ValueError; f has not been evaluated and no step has been
\* pulled then.
Accepted(name) ==
    CASE name = "secant" -> {1, 2}
      [] name \in {"mnewton", "halley", "anewton"} -> {1}
      [] name = "muller" -> {1, 2, 3}
      [] name \in {"bisect", "illinois", "pegasus", "anderson", "ridder"}
           -> {2}

NothingRun == ~fcalled /\ steps = <<>> /\ i = -1 /\ gen = None

C5_ConfigurationErrors ==
    /\ (solver \notin Names /\ pc # "call") =>
           /\ pc = "raised" /\ exc = "ValueError" /\ raisedAt = "lookup"
           /\ NothingRun
    /\ (solver \in Names /\ Len(x0) \notin Accepted(solver)
            /\ pc \notin {"call", "solver"}) =>
           /\ pc = "raised" /\ exc = "ValueError"
           /\ raisedAt = "construct" /\ NothingRun

C5_Witness ==
    /\ solver = "muller" /\ Len(x0) = 4
    /\ pc = "raised" /\ exc = "ValueError" /\ raisedAt = "construct"

\* C6: for bisect, illinois, pegasus, anderson and ridder, with f(x) = x,
\* the bracket [-1, 1], the default tolerance and the default step budget,
\* findroot returns a value that is 0 up to the tolerance.
IdentityBracket ==
    /\ solver \in {"bisect", "illinois", "pegasus", "anderson", "ridder"}
    /\ f = Poly(<<"f">>, <<0, 1>>)
    /\ x0 = <<Q(-1), Q(1)>>
    /\ tol = DefaultTol
    /\ kwargs.maxsteps = 0
    /\ kwargs.method = ""

C6_ConvergesToZero ==
    (IdentityBracket /\ pc \in {"returned", "raised", "unrepresentable"}) =>
        (pc = "returned" /\ RLe(RAbs(ret), tol))

\* C7: Secant and Muller on a constant non-zero function, started from
\* pairwise distinct points (those derived by the +0.25 rule included), end
\* their sequence without yielding and without raising: no division by zero
\* happens.
StartPoints ==
    IF solver = "secant"
    THEN IF Len(x0) = 1 THEN <<x0[1], RAdd(x0[1], Quarter)>> ELSE x0
    ELSE IF Len(x0) = 1
         THEN <<x0[1], RAdd(x0[1], Quarter), RAdd(x0[1], Half)>>
         ELSE IF Len(x0) = 2 THEN <<x0[1], x0[2], RAdd(x0[2], Quarter)>>
         ELSE x0

ConstantRun ==
    /\ solver \in {"secant", "muller"}
    /\ Len(x0) \in Accepted(solver)
    /\ f = Poly(<<"f">>, <<1>>)
    /\ \A j, k \in 1 .. Len(StartPoints) :
           j # k => StartPoints[j] # StartPoints[k]

C7_ConstantEndsQuietly ==
    (ConstantRun /\ Ended) =>
        /\ ~(pc = "raised" /\ raisedAt = "iterate")
        /\ exc # "ZeroDivisionError"
        /\ pc # "unrepresentable"
        /\ i = 0 /\ steps = <<>> /\ gen.pos = "done"

C7_Witness ==
    ConstantRun /\ solver = "muller" /\ Len(x0) = 2 /\ pc = "verify"

\* Step n of the run was slow: its error is non-zero and differs from the
\* error of the step before (0 before the first step) by less than itself.
StepSlow(n) ==
    /\ ~IsZero(steps[n][2])
    /\ RLt(RAbs(RSub(steps[n][2],
                     IF n = 1 THEN Zero ELSE steps[n - 1][2])),
           steps[n][2])

Tally(run, level) == IF run >= 3 THEN <<0, level + 1>> ELSE <<run, level>>

\* <<count, accelerations>> after step n when a step that is not slow
\* resets the count.
RECURSIVE Consecutive(_)
Consecutive(n) ==
    IF n = 0 THEN <<0, 0>>
    ELSE Tally(IF StepSlow(n) THEN Consecutive(n - 1)[1] + 1 ELSE 0,
               Consecutive(n - 1)[2])

\* <<count, accelerations>> after step n when a step that is not slow
\* leaves the count as it is.
RECURSIVE Accumulated(_)
Accumulated(n) ==
    IF n = 0 THEN <<0, 0>>
    ELSE Tally(Accumulated(n - 1)[1] + (IF StepSlow(n) THEN 1 ELSE 0),
               Accumulated(n - 1)[2])

Yielding == i >= 1 /\ gen.pos = "loop"

\* C8 (as claimed): ANewton wraps its iteration map in the Steffensen
\* transformation exactly when 3 consecutive steps were slow: a step that
\* is not slow resets the count, and the count restarts from zero after an
\* acceleration.
C8_ConsecutiveSlow ==
    Yielding => gen.phi = Consecutive(Len(steps))[2]

\* C8 (amended): ANewton wraps its iteration map in the Steffensen
\* transformation exactly at the step where the number of slow steps since
\* the start of the run or since the last acceleration reaches 3; steps
\* that are not slow leave the count unchanged, and the count restarts from
\* zero after an acceleration, which can then be triggered again.
C8_AccumulatedSlow ==
    Yielding =>
        /\ gen.phi = Accumulated(Len(steps))[2]
        /\ gen.counter = Accumulated(Len(steps))[1]

C8_Witness ==
    /\ Yielding /\ i >= 2
    /\ gen.phi = 1 /\ gen.counter = 0 /\ gen.slow
    /\ ~StepSlow(i - 1)

\* C9: multiplicity returns the smallest order k in 0 .. maxsteps-1 whose
\* derivative at root (f for k = 0, the supplied override or the k-th
\* numerical derivative for k >= 1) is not below tol in absolute value, and
\* maxsteps-1 when there is no such order.
OrderDerivative(k) ==
    IF k = 0 THEN f
    ELSE IF kwargs[k] # None THEN kwargs[k] ELSE diffn(f, k)

Qualifying ==
    {k \in 0 .. maxsteps - 1 :
        ~RLt(RAbs(Call(OrderDerivative(k), root)), tol)}

C9_SmallestOrder ==
    /\ pc # "raised"
    /\ pc = "returned" =>
           /\ ret \in 0 .. maxsteps - 1
           /\ IF Qualifying = {} THEN ret = maxsteps - 1
              ELSE ret \in Qualifying /\ \A k \in Qualifying : ret <= k

C9_Witness ==
    /\ pc = "returned" /\ ret = 1 /\ maxsteps = 3
    /\ kwargs[1] # None /\ Call(diffn(f, 1), root) = Zero

\* C10: MNewton and Halley use the second derivative supplied as d2f (and
\* the first derivative supplied as df or d1f), falling back to numerical
\* differentiation only for what is not supplied; supplying them never
\* makes the construction fail.
C10_SuppliedDerivatives ==
    (solver \in {"mnewton", "halley"} /\ Len(x0) = 1
        /\ pc \notin {"call", "solver"}) =>
        /\ ~(pc = "raised" /\ raisedAt = "construct")
        /\ iterations.df = IF kwargs.df # None THEN kwargs.df ELSE diff(f)
        /\ iterations.d2f = IF kwargs.d2f # None THEN kwargs.d2f
                            ELSE diff(iterations.df)

\* C12: every step (x, error) yielded by any solver has error >= 0, the
\* early-exit steps of Illinois, Pegasus, Anderson and Ridder included, for
\* every orientation of the bracket.
C12_ErrorNonNegative ==
    \A k \in 1 .. Len(steps) : RLe(Zero, steps[k][2])

\* C14: whenever findroot has finished pulling from the solver's sequence,
\* for any reason (the sequence ending before its first step included), it
\* holds an approximation x and ends by returning x or by raising the
\* validation ValueError.
C14_HoldsApproximation ==
    /\ pc = "verify" => x # Unbound
    /\ (pc = "raised" /\ raisedAt = "verify") => exc = "ValueError"
    /\ pc = "returned" => (ret # Unbound /\ ret = x)

\* C13: for Illinois, Pegasus and Anderson started on a bracket with
\* a # b and f(a)*f(b) < 0 and with tol > 0: at the start of every loop
\* iteration fa and fb have strictly opposite signs (the factor m applied
\* to fa is always > 0), so the slope s is never zero, no division by zero
\* occurs, and a # b holds until the early exit on |f(z)| < tol.
SignChange ==
    /\ solver \in {"illinois", "pegasus", "anderson"}
    /\ kwargs.method = ""
    /\ Len(x0) = 2
    /\ x0[1] # x0[2]
    /\ ProdNeg(Call(f, x0[1]), Call(f, x0[2]))
    /\ pc \in {"iterate", "verify", "returned", "raised", "unrepresentable"}
    /\ RLt(Zero, tol)

C13_OppositeSigns ==
    SignChange =>
        /\ exc # "ZeroDivisionError"
        /\ gen.pos = "loop" =>
               /\ ProdNeg(gen.fa, gen.fb)
               /\ gen.a # gen.b
               /\ ~IsZero(RSub(gen.fb, gen.fa))
               /\ gen.m # None => RLt(Zero, gen.m)
        /\ gen.pos = "done" => i >= 1

C13_Witness ==
    /\ SignChange /\ solver = "anderson"
    /\ gen.pos = "loop" /\ i >= 3
    /\ gen.m = Half

=============================================================================
